---- MODULE Spec2Model ----
(***************************************************************************)
(* The openaiAgent of EzequielGhR/goProjects: the router loop of RunAgent, *)
(* the tool dispatch of handleToolCalls, the message formatter and the     *)
(* openinference-like spans of the traceTools and tools packages.          *)
(*                                                                         *)
(*   agent   src/openaiAgent/src/agent/agent.go                            *)
(*   trace   src/openaiAgent/src/trace/trace.go   lines   1..250           *)
(*   tools   src/openaiAgent/src/trace/trace.go   lines 252..703           *)
(*   main    src/unnamed/part_005                 lines 260..321           *)
(***************************************************************************)
EXTENDS Integers, Sequences, FiniteSets, TLC

(***************************************************************************)
(* Bounds of the model.                                                    *)
(***************************************************************************)
\* completion requests one run may issue
MaxRequests == 3
\* tool calls the endpoint may request over one run, all responses together
MaxToolCalls == 2
\* length of a message list given to formatAgentMessages
MaxInputLen == 3
MaxConcurrentRequests == 2

(***************************************************************************)
(* Messages.  A message is a value of one of the Go types that implement   *)
(* openai.ChatCompletionMessageParamUnion; formatAgentMessages tells them  *)
(* apart by a type assertion, so the Go type is kept in the message.       *)
(***************************************************************************)
SystemParam == "ChatCompletionSystemMessageParam"
UserParam == "ChatCompletionUserMessageParam"
AssistantParam == "ChatCompletionAssistantMessageParam"
ToolParam == "ChatCompletionToolMessageParam"
ResponseMsg == "ChatCompletionMessage"

systemPrompt == "You are a helpful assistant that can answer questions about the Store Sales Price Elasticity Promotions dataset."

Msg(type, content, id, calls) ==
    [type |-> type, content |-> content, tool_call_id |-> id, tool_calls |-> calls]

SystemMessage(content) == Msg(SystemParam, content, 0, <<>>)
UserMessage(content) == Msg(UserParam, content, 0, <<>>)
AssistantMessage(content) == Msg(AssistantParam, content, 0, <<>>)
ToolMessageNoId(id, content) == Msg(ToolParam, content, 0, <<>>)

ToolMessage(id, content) == Msg(ToolParam, content, id, <<>>)

\* the role a message has on the wire
Role(m) ==
    CASE m.type = SystemParam -> "system"
      [] m.type = UserParam -> "user"
      [] m.type = ToolParam -> "tool"
      [] OTHER -> "assistant"

(***************************************************************************)
(* formatAgentMessages.  The input is a string or a message list.          *)
(***************************************************************************)
StringInput(s) == [kind |-> "string", text |-> s, list |-> <<>>]
ListInput(l) == [kind |-> "list", text |-> "", list |-> l]

hasSystemMessage(openaiMessages) ==
    \E i \in 1..Len(openaiMessages) : openaiMessages[i].type = SystemParam

convertInput(messages) ==
    IF messages.kind = "string" THEN <<UserMessage(messages.text)>> ELSE messages.list

formatAgentMessagesAppendSystem(messages) ==
    LET openaiMessages == convertInput(messages)
    IN  openaiMessages \o <<SystemMessage(systemPrompt)>>

formatAgentMessagesAlwaysSystem(messages) ==
    <<SystemMessage(systemPrompt)>> \o convertInput(messages)

\* the system message goes behind the first message of the input
formatAgentMessagesInsertSecond(messages) ==
    LET openaiMessages == convertInput(messages)
    IN  IF hasSystemMessage(openaiMessages) THEN openaiMessages
        ELSE IF openaiMessages = <<>> THEN <<SystemMessage(systemPrompt)>>
        ELSE <<openaiMessages[1], SystemMessage(systemPrompt)>> \o Tail(openaiMessages)

formatAgentMessages(messages) ==
    LET openaiMessages == convertInput(messages)
    IN  IF ~hasSystemMessage(openaiMessages)
        THEN <<SystemMessage(systemPrompt)>> \o openaiMessages
        ELSE openaiMessages

(***************************************************************************)
(* Tool calls.  The argument string of a tool call is JSON text; it is     *)
(* kept as what json.Unmarshal sees in it: whether it parses, and for each *)
(* key of toolFunctionArgs whether it is absent, a string or a number.     *)
(***************************************************************************)
LookUpFuncName == "LookUpSalesData"
AnalyzeFuncName == "AnalyzeSalesData"
VisualizeFuncName == "GenerateVisualization"
Model == "gpt-4o-mini"

Absent == <<>>
JsonString(s) == <<"string", s>>
JsonNumber == <<"number", "7">>

Json(syntax, data, prompt, goal) ==
    [syntax |-> syntax, data |-> data, prompt |-> prompt, visualizationGoal |-> goal]

\* {"prompt": "p"}
ArgsPrompt == Json(TRUE, Absent, JsonString("p"), Absent)
\* {"prompt": "p", "data": "d"}
ArgsPromptData == Json(TRUE, JsonString("d"), JsonString("p"), Absent)
\* {"data": "d", "visualizationGoal": "g"}
ArgsDataGoal == Json(TRUE, JsonString("d"), Absent, JsonString("g"))
\* {"prompt":      (text that is not JSON)
ArgsBadSyntax == Json(FALSE, Absent, Absent, Absent)
\* {"prompt": 7}  (JSON, but the value cannot go into a Go string)
ArgsBadType == Json(TRUE, Absent, JsonNumber, Absent)
\* {}
ArgsEmpty == Json(TRUE, Absent, Absent, Absent)

fieldOf(v) == IF Len(v) = 2 /\ v[1] = "string" THEN v[2] ELSE ""

UnmarshalErrorDropped(arguments) ==
    [err |-> FALSE,
     args |-> [Data |-> fieldOf(arguments.data),
               Prompt |-> fieldOf(arguments.prompt),
               VisualizationGoal |-> fieldOf(arguments.visualizationGoal)]]

\* json.Unmarshal([]byte(arguments), &toolFunctionArgs{})
Unmarshal(arguments) ==
    LET bad(v) == Len(v) = 2 /\ v[1] # "string"
    IN  [err |-> \/ ~arguments.syntax
                 \/ bad(arguments.data)
                 \/ bad(arguments.prompt)
                 \/ bad(arguments.visualizationGoal),
         args |-> IF arguments.syntax
                  THEN [Data |-> fieldOf(arguments.data),
                        Prompt |-> fieldOf(arguments.prompt),
                        VisualizationGoal |-> fieldOf(arguments.visualizationGoal)]
                  ELSE [Data |-> "", Prompt |-> "", VisualizationGoal |-> ""]]

ToolCall(id, name, arguments) == [id |-> id, name |-> name, arguments |-> arguments]
RawJSON(toolCall) == toolCall

(***************************************************************************)
(* Spans.  spans is the sequence of the spans started so far; a context is *)
(* the index of the span it carries, 0 is the nil context (and             *)
(* context.Background()).  Time is the count of start and end events.      *)
(***************************************************************************)
AgentKind == "agent"
ChainKind == "chain"
ToolKind == "tool"
LLMKind == "llm"
UnknownKind == "unknown"

openInferenceSpanKindKey == "openinference.span.kind"
openInferenceInputKey == "input.value"
openInferenceOutputKey == "output.value"
modelNameKey == "llm.model_name"
AttrKeys == {openInferenceSpanKindKey, openInferenceInputKey, openInferenceOutputKey, modelNameKey}

NoAttr == [t |-> "none", v |-> <<>>]
StringAttr(s) == [t |-> "string", v |-> s]
StringSliceAttr(l) == [t |-> "strings", v |-> l]

ToUpper(kind) ==
    CASE kind = "agent" -> "AGENT"
      [] kind = "chain" -> "CHAIN"
      [] kind = "tool" -> "TOOL"
      [] kind = "llm" -> "LLM"
      [] kind = "unknown" -> "UNKNOWN"
      [] OTHER -> kind

Now(sp) == Len(sp) + Cardinality({i \in 1..Len(sp) : sp[i].ended > 0})

NewSpan(name, parent, t) ==
    [name |-> name, parent |-> parent, status |-> "Unset", ended |-> 0,
     startT |-> t, endT |-> 0, late |-> FALSE,
     attrs |-> [k \in AttrKeys |-> NoAttr]]

\* tracer.Start(context.Background(), name): what the tools call
TracerStart(sp, name) == Append(sp, NewSpan(name, 0, Now(sp) + 1))

SetSpanAttr(sp, id, key, value) ==
    IF sp[id].ended > 0
    THEN [sp EXCEPT ![id].late = TRUE]
    ELSE [sp EXCEPT ![id].attrs[key] = value]

StartOpenInferenceSpanNoKind(sp, spanName, openInferenceSpanKind, parentSpanContext) ==
    Append(sp, NewSpan(spanName, parentSpanContext, Now(sp) + 1))

\* the span is the last of the result, its context is its index
StartOpenInferenceSpan(sp, spanName, openInferenceSpanKind, parentSpanContext) ==
    SetSpanAttr(Append(sp, NewSpan(spanName, parentSpanContext, Now(sp) + 1)),
                Len(sp) + 1, openInferenceSpanKindKey,
                StringAttr(ToUpper(openInferenceSpanKind)))

\* span.End(): the first call ends the span, a later call is counted
SpanEnd(sp, id) ==
    [sp EXCEPT ![id].ended = @ + 1,
               ![id].endT = IF sp[id].ended = 0 THEN Now(sp) + 1 ELSE @]

EndOpenInferenceSpan(sp, id) == SpanEnd(sp, id)

SetSpanInput(sp, id, input) == SetSpanAttr(sp, id, openInferenceInputKey, input)
SetSpanOutput(sp, id, output) == SetSpanAttr(sp, id, openInferenceOutputKey, output)
SetSpanModel(sp, id, model) == SetSpanAttr(sp, id, modelNameKey, StringAttr(model))

SetSpanGenericStatus(sp, id, statusCode) ==
    IF sp[id].ended > 0
    THEN [sp EXCEPT ![id].late = TRUE]
    ELSE [sp EXCEPT ![id].status = statusCode]

SetSpanErrorCodeDropped(sp, id) == sp

SetSpanSuccessCode(sp, id) == SetSpanGenericStatus(sp, id, "Ok")

SetSpanErrorCode(sp, id) == SetSpanGenericStatus(sp, id, "Error")

KindOf(s) == s.attrs[openInferenceSpanKindKey]

(***************************************************************************)
(* The tools (package tools).  Each takes the spans and what its external  *)
(* collaborators (database, completion endpoint) do in this execution, and *)
(* gives the spans after it and the text it returns.                       *)
(***************************************************************************)
Ret(sp, result) == [spans |-> sp, result |-> result]

\* generateSqlQuery: fails iff its completion call fails
generateSqlQuery(sp, prompt, fails) ==
    LET id == Len(sp) + 1
        s1 == SetSpanInput(TracerStart(sp, "SqlGeneration"), id,
                           StringAttr(<<"sqlGenerationPrompt", prompt>>))
    IN  IF fails
        THEN [spans |-> SpanEnd(SetSpanErrorCode(s1, id), id), err |-> TRUE, result |-> ""]
        ELSE [spans |-> SpanEnd(SetSpanSuccessCode(SetSpanModel(
                            SetSpanOutput(s1, id, StringAttr("SELECT")), id, Model), id), id),
              err |-> FALSE, result |-> "SELECT"]

\* what can happen in LookUpSalesData: sql.Open fails, generateSqlQuery
\* fails, the query of the generated SQL fails, or nothing fails.  The other
\* failure returns (table creation, column fetches, row extraction) do the
\* same span operations as "open" (before generateSqlQuery) or as "select"
\* (after it) and differ in the text only.
LookUpOutcomes == {"ok", "open", "sqlgen", "select"}

LookUpSalesData(sp, prompt, outcome) ==
    LET id == Len(sp) + 1
        s1 == SetSpanInput(TracerStart(sp, "LookUpTool"), id, StringAttr(prompt))
        gen == generateSqlQuery(s1, prompt, outcome = "sqlgen")
    IN  CASE outcome = "open" ->
               Ret(SpanEnd(SetSpanErrorCode(s1, id), id), "Failed to open Database")
          [] outcome = "sqlgen" ->
               Ret(SpanEnd(SetSpanErrorCode(gen.spans, id), id), "Failed to generate SQL query")
          [] outcome = "select" ->
               Ret(SpanEnd(SetSpanErrorCode(gen.spans, id), id),
                   "Failed to select data from database")
          [] OTHER ->
               Ret(SpanEnd(SetSpanSuccessCode(
                       SetSpanOutput(gen.spans, id, StringAttr("table")), id), id),
                   "table")

\* the analysis completion call fails (or answers blank text), or answers
AnalyzeOutcomes == {"ok", "error"}

AnalyzeSalesData(sp, prompt, data, outcome) ==
    LET id == Len(sp) + 1
        s1 == SetSpanInput(TracerStart(sp, "AnalyzeTool"), id,
                           StringAttr(<<"dataAnalysisPrompt", data, prompt>>))
        finalAnalysis == IF outcome = "error" THEN "" ELSE "analysis"
        s2 == SetSpanModel(s1, id, Model)
    IN  IF finalAnalysis = ""
        THEN Ret(SpanEnd(SetSpanErrorCode(s2, id), id), "No analysis could be generated")
        ELSE Ret(SpanEnd(SetSpanSuccessCode(
                     SetSpanOutput(s2, id, StringAttr(finalAnalysis)), id), id),
                 finalAnalysis)

\* extractChartConfig: on failure the default configuration is returned
extractChartConfig(sp, data, visualizationGoal, fails) ==
    LET id == Len(sp) + 1
        s1 == SetSpanInput(TracerStart(sp, "ChartConfig"), id,
                           StringAttr(<<"chartConfigPrompt", data, visualizationGoal>>))
    IN  IF fails
        THEN Ret(SpanEnd(SetSpanErrorCode(s1, id), id), "default config")
        ELSE Ret(SpanEnd(SetSpanModel(SetSpanOutput(
                     SetSpanSuccessCode(s1, id), id, StringAttr("config")), id, Model), id),
                 "config")

\* createChart: on failure the empty string is returned
createChart(sp, config, fails) ==
    LET id == Len(sp) + 1
        s1 == SetSpanInput(TracerStart(sp, "CreateChart"), id,
                           StringAttr(<<"createChartPrompt", config>>))
    IN  IF fails
        THEN Ret(SpanEnd(SetSpanErrorCode(s1, id), id), "")
        ELSE Ret(SpanEnd(SetSpanSuccessCode(
                     SetSpanOutput(s1, id, StringAttr("python code")), id), id),
                 "python code")

\* which of the two completion calls of GenerateVisualization fail
VisualizeOutcomes == {"ok", "config", "chart", "both"}

GenerateVisualization(sp, data, visualizationGoal, outcome) ==
    LET id == Len(sp) + 1
        s1 == SetSpanInput(TracerStart(sp, "VisualizationTool"), id,
                           StringSliceAttr(<<data, visualizationGoal>>))
        config == extractChartConfig(s1, data, visualizationGoal,
                                     outcome \in {"config", "both"})
        code == createChart(config.spans, config.result, outcome \in {"chart", "both"})
    IN  Ret(SpanEnd(SetSpanSuccessCode(SetSpanModel(
                SetSpanOutput(code.spans, id, StringAttr(code.result)), id, Model), id), id),
            code.result)

KnownTools == {LookUpFuncName, AnalyzeFuncName, VisualizeFuncName}

OutcomesOf(functionName) ==
    CASE functionName = LookUpFuncName -> LookUpOutcomes
      [] functionName = AnalyzeFuncName -> AnalyzeOutcomes
      [] functionName = VisualizeFuncName -> VisualizeOutcomes
      [] OTHER -> {"none"}

(***************************************************************************)
(* The tool catalog.  The file is kept as what loadToolsJson sees of it:   *)
(* whether os.Open opens it, whether its text decodes, and the function    *)
(* names of its entries.                                                   *)
(***************************************************************************)
ToolsFile(opens, decodes, names) == [opens |-> opens, decodes |-> decodes, names |-> names]

\* the catalog of the three tools
ToolsJson == ToolsFile(TRUE, TRUE, <<LookUpFuncName, AnalyzeFuncName, VisualizeFuncName>>)

\* loadToolsJson: a file that does not open is a panic; the error of Decode
\* is not looked at, and config is then the empty list it was made as
loadToolsJson(file) ==
    [panic |-> ~file.opens,
     config |-> IF file.opens /\ file.decodes THEN file.names ELSE <<>>]

\* convertToolConfigToParams: one parameter per entry, a panic on a name
\* that is none of the three
convertToolConfigToParams(toolConfigs) ==
    [panic |-> \E i \in 1..Len(toolConfigs) : toolConfigs[i] \notin KnownTools,
     params |-> toolConfigs]

(***************************************************************************)
(* The state of one process: main -> startMainSpan -> RunAgent ->          *)
(* handleToolCalls -> tools, or a caller that calls RunAgent itself.       *)
(***************************************************************************)
VARIABLES
    input,              \* the argument of RunAgent (startMainSpan: os.Args[1])
    viaMain,            \* the run was started by startMainSpan
    pc,                 \* where the process is
    openaiMessages,     \* RunAgent: the conversation
    toolCalls,          \* RunAgent: the tool calls of the last response
    messages,           \* handleToolCalls: its message list
    idx,                \* handleToolCalls: position of the range loop (1-based)
    spans,              \* every span started so far
    AgentContext,       \* traceTools globals: a context (span index), 0 is nil
    LastRouterContext,
    HandleToolContext,
    LastToolContext,
    mainSpan,           \* startMainSpan: span
    routerSpan,         \* RunAgent: span of the current iteration
    deferred,           \* RunAgent: the deferred EndOpenInferenceSpan calls, in defer order
    handleSpan,         \* handleToolCalls: span
    requests,           \* the message lists of the completion requests issued so far
    executed,           \* the tool executions so far: call id, tool, arguments, text returned
    issued,             \* the number of tool calls the endpoint has requested so far
    result,             \* what RunAgent returned: the answer
    err,                \* what RunAgent returned: the error, "nil" if none
    shutdown,           \* main: tracerProvider.Shutdown was called
    runs,               \* the locals of each of two runs in one process
    catalog,            \* the file at tools.ToolsJsonPath
    openaiToolParams,   \* RunAgent: the tool parameters of its requests
    kvMap,              \* the argument of a call of SetSpanAttrFromMap
    tracer,             \* the process that calls GetTracerProvider
    chat                \* the state of the chat program (openaiChat)

vars == <<input, viaMain, pc, openaiMessages, toolCalls, messages, idx, spans,
          AgentContext, LastRouterContext, HandleToolContext, LastToolContext,
          mainSpan, routerSpan, deferred, handleSpan, requests, executed, issued,
          result, err, shutdown, runs, catalog, openaiToolParams, kvMap, chat,
          tracer>>

slots == <<AgentContext, LastRouterContext, HandleToolContext, LastToolContext>>
handleVars == <<toolCalls, messages, idx, handleSpan>>
\* the locals of the run of main
oneRunVars == <<input, viaMain, pc, openaiMessages, toolCalls, messages, idx, mainSpan,
                routerSpan, deferred, handleSpan, requests, executed, issued, result, err,
                shutdown, catalog, openaiToolParams>>

\* the two runs of a process that starts two
Runs == {"first", "second"}
runVars == <<openaiMessages, routerSpan, deferred, requests, issued, result, err>>

\* the inputs of the runs of the process
RunInputs ==
    {StringInput("What were sales for store 7 last week?"),
     ListInput(<<UserMessage("q")>>),
     ListInput(<<UserMessage("q"), SystemMessage("be brief")>>)}

\* the inputs given to formatAgentMessages alone
InputMessages ==
    {SystemMessage(systemPrompt), SystemMessage("be brief"), UserMessage("q"),
     AssistantMessage("a"), ToolMessage(1, "r")}

SeqsUpTo(S, n) == UNION {[1..k -> S] : k \in 0..n}

FormatInputs ==
    {StringInput(s) : s \in {"", "q"}} \cup {ListInput(l) : l \in SeqsUpTo(InputMessages, MaxInputLen)}

InitWith(inputs) ==
    /\ input \in inputs
    /\ viaMain = FALSE
    /\ pc = "start"
    /\ openaiMessages = <<>>
    /\ toolCalls = <<>>
    /\ messages = <<>>
    /\ idx = 0
    /\ spans = <<>>
    /\ AgentContext = 0
    /\ LastRouterContext = 0
    /\ HandleToolContext = 0
    /\ LastToolContext = 0
    /\ mainSpan = 0
    /\ routerSpan = 0
    /\ deferred = <<>>
    /\ handleSpan = 0
    /\ requests = <<>>
    /\ executed = <<>>
    /\ issued = 0
    /\ result = ""
    /\ err = "nil"
    /\ shutdown = FALSE

\* the catalog is the one of the three tools; nothing calls
\* SetSpanAttrFromMap; the chat program is another process, and so is the
\* one whose tracer provider is followed
Elsewhere ==
    /\ catalog = ToolsJson
    /\ openaiToolParams = <<>>
    /\ kvMap = <<>>
    /\ tracer = [pc |-> "none"]
    /\ chat = [pc |-> "none"]

\* a process with the one run of main: no other run is started
Init == InitWith(RunInputs) /\ runs = [r \in Runs |-> [pc |-> "none"]] /\ Elsewhere
InitFormat == InitWith(FormatInputs) /\ runs = [r \in Runs |-> [pc |-> "none"]] /\ Elsewhere

(***************************************************************************)
(* main and startMainSpan.                                                 *)
(***************************************************************************)
\* startMainSpan up to its call of RunAgent
StartMainSpan ==
    /\ pc = "start"
    /\ input.kind = "string"
    /\ LET s1 == StartOpenInferenceSpan(spans, "AgentRun", AgentKind, 0)
           span == Len(s1)
       IN  /\ AgentContext' = span
           /\ mainSpan' = span
           /\ spans' = SetSpanModel(SetSpanInput(s1, span, StringAttr(input.text)), span, Model)
    /\ viaMain' = TRUE
    /\ pc' = "runAgent"
    /\ UNCHANGED <<runs, kvMap, tracer, chat, catalog, openaiToolParams, input, LastRouterContext, HandleToolContext, LastToolContext,
                   handleVars, runVars, executed, shutdown>>

\* every deferred call ends the span of the last iteration
RECURSIVE RunDeferredLastSpan(_, _)
RunDeferredLastSpan(sp, d) ==
    IF d = <<>> THEN sp
    ELSE RunDeferredLastSpan(EndOpenInferenceSpan(sp, routerSpan), SubSeq(d, 1, Len(d) - 1))

\* the deferred calls of a function run last in, first out
RECURSIVE RunDeferred(_, _)
RunDeferred(sp, d) ==
    IF d = <<>> THEN sp
    ELSE RunDeferred(EndOpenInferenceSpan(sp, d[Len(d)]), SubSeq(d, 1, Len(d) - 1))

\* startMainSpan after RunAgent returned, and its deferred end of the span
StartMainSpanReturn ==
    /\ pc = "returned"
    /\ viaMain
    /\ LET s1 == SetSpanOutput(spans, mainSpan, StringAttr(result))
           s2 == IF err # "nil" THEN SetSpanErrorCode(s1, mainSpan)
                 ELSE SetSpanSuccessCode(s1, mainSpan)
       IN  spans' = EndOpenInferenceSpan(s2, mainSpan)
    /\ pc' = "shutdown"
    /\ UNCHANGED <<runs, kvMap, tracer, chat, catalog, openaiToolParams, input, viaMain, slots, mainSpan, handleVars, runVars, executed, shutdown>>

\* main after startMainSpan returned: Shutdown, then the result or a panic
MainShutdown ==
    /\ pc = "shutdown"
    /\ shutdown' = TRUE
    /\ pc' = IF err # "nil" THEN "exitError" ELSE "exit"
    /\ UNCHANGED <<runs, kvMap, tracer, chat, catalog, openaiToolParams, input, viaMain, slots, mainSpan, handleVars, runVars, executed, spans>>

(***************************************************************************)
(* RunAgent.                                                               *)
(***************************************************************************)
\* formatAgentMessages and the tool parameters, before the loop
RunAgentEntry ==
    /\ pc \in {"start", "runAgent"}
    /\ openaiMessages' = formatAgentMessages(input)
    /\ LET loaded == loadToolsJson(catalog)
           converted == convertToolConfigToParams(loaded.config)
       IN  IF loaded.panic \/ converted.panic
           THEN /\ openaiToolParams' = <<>>
                /\ pc' = "configPanic"
           ELSE /\ openaiToolParams' = converted.params
                /\ pc' = "loop"
    /\ UNCHANGED <<runs, kvMap, tracer, chat, catalog, input, viaMain, slots, mainSpan, handleVars,
                   routerSpan, deferred, requests, issued, result, err, executed, spans,
                   shutdown>>

\* the loop gives up after two requests
RouterCallStartCapped ==
    /\ pc = "loop"
    /\ Len(requests) < MaxRequests
    /\ Len(requests) < 2
    /\ LET s1 == StartOpenInferenceSpan(spans, "RouterCall", ChainKind, AgentContext)
           span == Len(s1)
           inputMessage == openaiMessages[Len(openaiMessages)]
       IN  /\ routerSpan' = span
           /\ deferred' = Append(deferred, span)
           /\ LastRouterContext' = span
           /\ spans' = SetSpanModel(SetSpanInput(s1, span, StringAttr(inputMessage.content)),
                                    span, Model)
    /\ requests' = Append(requests, openaiMessages)
    /\ pc' = "request"
    /\ UNCHANGED <<runs, kvMap, tracer, chat, catalog, openaiToolParams, input, viaMain, AgentContext, HandleToolContext, LastToolContext, mainSpan,
                   handleVars, openaiMessages, issued, result, err, executed, shutdown>>

\* the span of an iteration is started under the context of the last RouterCall span
RouterCallStartUnderLastRouter ==
    /\ pc = "loop"
    /\ Len(requests) < MaxRequests
    /\ LET s1 == StartOpenInferenceSpan(spans, "RouterCall", ChainKind,
                                        IF LastRouterContext # 0 THEN LastRouterContext
                                        ELSE AgentContext)
           span == Len(s1)
           inputMessage == openaiMessages[Len(openaiMessages)]
       IN  /\ routerSpan' = span
           /\ deferred' = Append(deferred, span)
           /\ LastRouterContext' = span
           /\ spans' = SetSpanModel(SetSpanInput(s1, span, StringAttr(inputMessage.content)),
                                    span, Model)
    /\ requests' = Append(requests, openaiMessages)
    /\ pc' = "request"
    /\ UNCHANGED <<runs, kvMap, tracer, chat, catalog, openaiToolParams, input, viaMain, AgentContext, HandleToolContext, LastToolContext, mainSpan,
                   handleVars, openaiMessages, issued, result, err, executed, shutdown>>

\* the top of the loop, up to the completion call
RouterCallStart ==
    /\ pc = "loop"
    /\ Len(requests) < MaxRequests
    /\ LET s1 == StartOpenInferenceSpan(spans, "RouterCall", ChainKind, AgentContext)
           span == Len(s1)
           inputMessage == openaiMessages[Len(openaiMessages)]
       IN  /\ routerSpan' = span
           /\ deferred' = Append(deferred, span)
           /\ LastRouterContext' = span
           /\ spans' = SetSpanModel(SetSpanInput(s1, span, StringAttr(inputMessage.content)),
                                    span, Model)
    /\ requests' = Append(requests, openaiMessages)
    /\ pc' = "request"
    /\ UNCHANGED <<runs, kvMap, tracer, chat, catalog, openaiToolParams, input, viaMain, AgentContext, HandleToolContext, LastToolContext, mainSpan,
                   handleVars, openaiMessages, issued, result, err, executed, shutdown>>

\* the return of RunAgent: its deferred calls run, then the caller goes on
ReturnFromRunAgent(sp, answer, error) ==
    /\ spans' = RunDeferred(sp, deferred)
    /\ result' = answer
    /\ err' = error
    /\ pc' = IF viaMain THEN "returned" ELSE "exit"

\* the completion call fails
CompletionError ==
    /\ pc = "request"
    /\ ReturnFromRunAgent(SetSpanErrorCode(spans, routerSpan), "", "transport error")
    /\ UNCHANGED <<runs, kvMap, tracer, chat, catalog, openaiToolParams, input, viaMain, slots, mainSpan, handleVars, openaiMessages, routerSpan,
                   deferred, requests, issued, executed, shutdown>>

\* what the endpoint may ask for in one tool call
CallShapes ==
    {<<LookUpFuncName, ArgsPrompt>>, <<AnalyzeFuncName, ArgsPromptData>>,
     <<VisualizeFuncName, ArgsDataGoal>>, <<"DeleteSalesData", ArgsPrompt>>,
     <<LookUpFuncName, ArgsBadSyntax>>, <<AnalyzeFuncName, ArgsBadType>>,
     <<LookUpFuncName, ArgsEmpty>>}

Answers == {"Sales were flat"}

\* the message of a response: ChatCompletionMessage
ResponseMessage(content, calls) == Msg(ResponseMsg, content, 0, calls)

\* a response without tool calls is added and the loop goes on
CompletionAnswerContinues ==
    /\ pc = "request"
    /\ \E content \in Answers :
         LET responseMessage == ResponseMessage(content, <<>>)
             s1 == SetSpanSuccessCode(spans, routerSpan)
         IN  /\ openaiMessages' = Append(openaiMessages, responseMessage)
             /\ toolCalls' = <<>>
             /\ spans' = SetSpanOutput(s1, routerSpan, StringAttr(responseMessage.content))
             /\ pc' = "loop"
    /\ UNCHANGED <<runs, kvMap, tracer, chat, catalog, openaiToolParams, input, viaMain, slots, mainSpan, messages, idx, handleSpan, routerSpan,
                   deferred, requests, issued, executed, result, err, shutdown>>

\* the completion call answers with plain text
CompletionAnswer ==
    /\ pc = "request"
    /\ \E content \in Answers :
         LET responseMessage == ResponseMessage(content, <<>>)
             s1 == SetSpanSuccessCode(spans, routerSpan)
             s2 == SetSpanOutput(s1, routerSpan, StringAttr(responseMessage.content))
         IN  /\ openaiMessages' = Append(openaiMessages, responseMessage)
             /\ toolCalls' = <<>>
             /\ ReturnFromRunAgent(s2, responseMessage.content, "nil")
    /\ UNCHANGED <<runs, kvMap, tracer, chat, catalog, openaiToolParams, input, viaMain, slots, mainSpan, messages, idx, handleSpan, routerSpan,
                   deferred, requests, issued, executed, shutdown>>

\* the response is not added to the conversation
CompletionToolCallsResponseDropped ==
    /\ pc = "request"
    /\ \E n \in 1..(MaxToolCalls - issued) : \E shapes \in [1..n -> CallShapes] :
         LET calls == [i \in 1..n |-> ToolCall(issued + i, shapes[i][1], shapes[i][2])]
             responseMessage == ResponseMessage("", calls)
             rawJsonToolCalls == [i \in 1..n |-> RawJSON(calls[i])]
             s1 == SetSpanSuccessCode(spans, routerSpan)
         IN  /\ openaiMessages' = openaiMessages
             /\ toolCalls' = calls
             /\ issued' = issued + n
             /\ spans' = SetSpanOutput(s1, routerSpan, StringSliceAttr(rawJsonToolCalls))
    /\ pc' = "handle"
    /\ UNCHANGED <<runs, kvMap, tracer, chat, catalog, openaiToolParams, input, viaMain, slots, mainSpan, messages, idx, handleSpan, routerSpan,
                   deferred, requests, result, err, executed, shutdown>>

\* the completion call answers with tool calls
CompletionToolCalls ==
    /\ pc = "request"
    /\ \E n \in 1..(MaxToolCalls - issued) : \E shapes \in [1..n -> CallShapes] :
         LET calls == [i \in 1..n |-> ToolCall(issued + i, shapes[i][1], shapes[i][2])]
             responseMessage == ResponseMessage("", calls)
             rawJsonToolCalls == [i \in 1..n |-> RawJSON(calls[i])]
             s1 == SetSpanSuccessCode(spans, routerSpan)
         IN  /\ openaiMessages' = Append(openaiMessages, responseMessage)
             /\ toolCalls' = calls
             /\ issued' = issued + n
             /\ spans' = SetSpanOutput(s1, routerSpan, StringSliceAttr(rawJsonToolCalls))
    /\ pc' = "handle"
    /\ UNCHANGED <<runs, kvMap, tracer, chat, catalog, openaiToolParams, input, viaMain, slots, mainSpan, messages, idx, handleSpan, routerSpan,
                   deferred, requests, result, err, executed, shutdown>>

(***************************************************************************)
(* handleToolCalls.                                                        *)
(***************************************************************************)
\* the span is started under the context of the AgentRun span
HandleToolCallsStartUnderAgent ==
    /\ pc = "handle"
    /\ LET s1 == StartOpenInferenceSpan(spans, "HandleToolCalls", ChainKind, AgentContext)
       IN  /\ handleSpan' = Len(s1)
           /\ HandleToolContext' = Len(s1)
           /\ spans' = s1
    /\ messages' = openaiMessages
    /\ idx' = 1
    /\ pc' = "dispatch"
    /\ UNCHANGED <<runs, kvMap, tracer, chat, catalog, openaiToolParams, input, viaMain, AgentContext, LastRouterContext, LastToolContext, mainSpan,
                   toolCalls, runVars, executed, shutdown>>

\* the call of handleToolCalls(toolCalls, openaiMessages), up to its loop
HandleToolCallsStart ==
    /\ pc = "handle"
    /\ LET s1 == StartOpenInferenceSpan(spans, "HandleToolCalls", ChainKind, LastRouterContext)
       IN  /\ handleSpan' = Len(s1)
           /\ HandleToolContext' = Len(s1)
           /\ spans' = s1
    /\ messages' = openaiMessages
    /\ idx' = 1
    /\ pc' = "dispatch"
    /\ UNCHANGED <<runs, kvMap, tracer, chat, catalog, openaiToolParams, input, viaMain, AgentContext, LastRouterContext, LastToolContext, mainSpan,
                   toolCalls, runVars, executed, shutdown>>

switchDefaultNeverTaken(functionName) == FALSE

\* the default branch of the switch on the function name is taken
switchDefault(functionName) == functionName \notin KnownTools

\* the case of the switch on the function name
callTool(sp, functionName, functionArgs, outcome) ==
    CASE functionName = LookUpFuncName ->
           LookUpSalesData(sp, functionArgs.Prompt, outcome)
      [] functionName = AnalyzeFuncName ->
           AnalyzeSalesData(sp, functionArgs.Prompt, functionArgs.Data, outcome)
      [] functionName = VisualizeFuncName ->
           GenerateVisualization(sp, functionArgs.Data, functionArgs.VisualizationGoal, outcome)
      [] OTHER -> Ret(sp, "")

\* one pass of the range loop: the tool call at idx
ProcessToolCall ==
    /\ pc = "dispatch"
    /\ idx <= Len(toolCalls)
    /\ LET toolCall == toolCalls[idx]
           functionName == toolCall.name
           unmarshalled == Unmarshal(toolCall.arguments)
       IN  IF unmarshalled.err \/ switchDefault(functionName)
           THEN \* SetSpanErrorCode(span); log.Panic(...)
                /\ spans' = SetSpanErrorCode(spans, handleSpan)
                /\ pc' = "panic"
                /\ UNCHANGED <<messages, idx, executed>>
           ELSE \E outcome \in OutcomesOf(functionName) :
                  LET ran == callTool(spans, functionName, unmarshalled.args, outcome)
                      response == ToolMessage(toolCall.id, ran.result)
                  IN  /\ spans' = ran.spans
                      /\ messages' = Append(messages, response)
                      /\ executed' = Append(executed,
                                            [id |-> toolCall.id, name |-> functionName,
                                             args |-> unmarshalled.args, outcome |-> outcome,
                                             result |-> ran.result])
                      /\ idx' = idx + 1
                      /\ pc' = "dispatch"
    /\ UNCHANGED <<runs, kvMap, tracer, chat, catalog, openaiToolParams, input, viaMain, slots, mainSpan, toolCalls, handleSpan, runVars, shutdown>>

\* the return placed inside the range loop
HandleToolCallsReturnEarly ==
    /\ pc = "dispatch"
    /\ idx > 1
    /\ spans' = EndOpenInferenceSpan(SetSpanSuccessCode(spans, handleSpan), handleSpan)
    /\ openaiMessages' = messages
    /\ pc' = "loop"
    /\ UNCHANGED <<runs, kvMap, tracer, chat, catalog, openaiToolParams, input, viaMain, slots, mainSpan, handleVars, routerSpan, deferred, requests,
                   issued, result, err, executed, shutdown>>

\* the span is ended before its attributes and status are set
HandleToolCallsReturnEndFirst ==
    /\ pc = "dispatch"
    /\ idx > Len(toolCalls)
    /\ LET n == Len(toolCalls)
           inputAttr == [i \in 1..n |-> RawJSON(toolCalls[i])]
           outputAttr == [i \in 1..n |-> messages[Len(messages) - n + i].content]
           s1 == SetSpanInput(EndOpenInferenceSpan(spans, handleSpan), handleSpan,
                              StringSliceAttr(inputAttr))
           s2 == SetSpanOutput(s1, handleSpan, StringSliceAttr(outputAttr))
           s3 == SetSpanSuccessCode(SetSpanModel(s2, handleSpan, Model), handleSpan)
       IN  spans' = s3
    /\ openaiMessages' = messages
    /\ pc' = "loop"
    /\ UNCHANGED <<runs, kvMap, tracer, chat, catalog, openaiToolParams, input, viaMain, slots, mainSpan, handleVars, routerSpan, deferred, requests,
                   issued, result, err, executed, shutdown>>

\* after the loop: the attributes, the status, the return and the deferred end
HandleToolCallsReturn ==
    /\ pc = "dispatch"
    /\ idx > Len(toolCalls)
    /\ LET n == Len(toolCalls)
           inputAttr == [i \in 1..n |-> RawJSON(toolCalls[i])]
           outputAttr == [i \in 1..n |-> messages[Len(messages) - n + i].content]
           s1 == SetSpanInput(spans, handleSpan, StringSliceAttr(inputAttr))
           s2 == SetSpanOutput(s1, handleSpan, StringSliceAttr(outputAttr))
           s3 == SetSpanSuccessCode(SetSpanModel(s2, handleSpan, Model), handleSpan)
       IN  spans' = EndOpenInferenceSpan(s3, handleSpan)
    /\ openaiMessages' = messages
    /\ pc' = "loop"
    /\ UNCHANGED <<runs, kvMap, tracer, chat, catalog, openaiToolParams, input, viaMain, slots, mainSpan, handleVars, routerSpan, deferred, requests,
                   issued, result, err, executed, shutdown>>

\* a panic of handleToolCalls unwinds the stack: the deferred calls of
\* handleToolCalls, of RunAgent and of startMainSpan run, then the process
\* dies; a panic of loadToolsJson or convertToolConfigToParams unwinds from
\* RunAgent, which has deferred nothing yet
PanicUnwind ==
    /\ pc \in {"panic", "configPanic"}
    /\ LET s1 == IF pc = "panic" THEN EndOpenInferenceSpan(spans, handleSpan) ELSE spans
           s2 == RunDeferred(s1, deferred)
       IN  spans' = IF viaMain THEN EndOpenInferenceSpan(s2, mainSpan) ELSE s2
    /\ pc' = IF pc = "panic" THEN "crashed" ELSE "configCrashed"
    /\ UNCHANGED <<runs, kvMap, tracer, chat, catalog, openaiToolParams, input, viaMain, slots,
                   mainSpan, handleVars, runVars, executed, shutdown>>

(***************************************************************************)
(* The specifications.                                                     *)
(***************************************************************************)
Next ==
    \/ StartMainSpan
    \/ RunAgentEntry
    \/ RouterCallStart
    \/ CompletionError
    \/ CompletionAnswer
    \/ CompletionToolCalls
    \/ HandleToolCallsStart
    \/ ProcessToolCall
    \/ HandleToolCallsReturn
    \/ PanicUnwind
    \/ StartMainSpanReturn
    \/ MainShutdown

Spec == Init /\ [][Next]_vars

\* every call that is made returns: the completion call, the execution of
\* a tool, and the code of the process between them goes on
\* (weak fairness of each step; for ProcessToolCall it is written out, the
\* step being enabled exactly when the range loop has a tool call left)
CallsReturn ==
    /\ WF_vars(StartMainSpan \/ RunAgentEntry)
    /\ WF_vars(RouterCallStart)
    /\ WF_vars(CompletionError \/ CompletionAnswer \/ CompletionToolCalls)
    /\ WF_vars(HandleToolCallsStart)
    /\ ([]<>~(pc = "dispatch" /\ idx <= Len(toolCalls)) \/ []<><<ProcessToolCall>>_vars)
    /\ WF_vars(HandleToolCallsReturn)
    /\ WF_vars(PanicUnwind)
    /\ WF_vars(StartMainSpanReturn)
    /\ WF_vars(MainShutdown)

SpecLive == Init /\ [][Next]_vars /\ CallsReturn

\* formatAgentMessages on its own, over every input up to MaxInputLen
NextFormat == RunAgentEntry

SpecFormat == InitFormat /\ [][NextFormat]_vars

\* one run of RunAgent for each catalog file it may find
Catalogs ==
    {ToolsJson,
     ToolsFile(TRUE, TRUE, <<LookUpFuncName, AnalyzeFuncName, VisualizeFuncName, "DeleteSalesData">>),
     ToolsFile(TRUE, TRUE, <<LookUpFuncName, AnalyzeFuncName>>),
     ToolsFile(TRUE, FALSE, <<>>),
     ToolsFile(FALSE, FALSE, <<>>)}

InitCatalog ==
    /\ InitWith({StringInput("q")})
    /\ runs = [r \in Runs |-> [pc |-> "none"]]
    /\ catalog \in Catalogs
    /\ openaiToolParams = <<>>
    /\ kvMap = <<>>
    /\ tracer = [pc |-> "none"]
    /\ chat = [pc |-> "none"]

SpecCatalog == InitCatalog /\ [][Next]_vars

(***************************************************************************)
(* Two runs in one process.  Each run has its own locals (the record       *)
(* runs[r]); the slots and the tracer's spans are the process's.  A step   *)
(* of a run is one of the stretches of code between two calls that block   *)
(* (the completion call, the execution of a tool), taken whole.            *)
(***************************************************************************)
\* a run that has not been started: the prompt it will be given is `last`
NewRun(prompt) ==
    [pc |-> "start", viaMain |-> FALSE, mainSpan |-> 0, routerSpan |-> 0,
     deferred |-> <<>>, handleSpan |-> 0, toolCalls |-> <<>>, requests |-> 0,
     last |-> prompt, result |-> "", err |-> "nil", own |-> {}]

InitConcurrent ==
    /\ InitWith({StringInput("q")})
    /\ Elsewhere
    /\ runs = [r \in Runs |-> NewRun(r)]

\* startMainSpan of run r, up to its call of RunAgent
StartMainSpanIn(r) ==
    /\ runs[r].pc = "start"
    /\ LET s1 == StartOpenInferenceSpan(spans, "AgentRun", AgentKind, 0)
           span == Len(s1)
       IN  /\ AgentContext' = span
           /\ spans' = SetSpanModel(SetSpanInput(s1, span, StringAttr(runs[r].last)), span, Model)
           /\ runs' = [runs EXCEPT ![r].pc = "runAgent", ![r].viaMain = TRUE,
                                   ![r].mainSpan = span, ![r].own = @ \cup {span}]
    /\ UNCHANGED <<LastRouterContext, HandleToolContext, LastToolContext, oneRunVars, kvMap, tracer, chat>>

\* RunAgent of run r (called by startMainSpan or by another caller): the
\* top of the loop, up to the completion call
RouterCallStartIn(r) ==
    /\ runs[r].pc \in {"start", "runAgent", "loop"}
    /\ runs[r].requests < MaxConcurrentRequests
    /\ LET s1 == StartOpenInferenceSpan(spans, "RouterCall", ChainKind, AgentContext)
           span == Len(s1)
       IN  /\ LastRouterContext' = span
           /\ spans' = SetSpanModel(SetSpanInput(s1, span, StringAttr(runs[r].last)), span, Model)
           /\ runs' = [runs EXCEPT ![r].pc = "request", ![r].routerSpan = span,
                                   ![r].deferred = Append(@, span),
                                   ![r].requests = @ + 1, ![r].own = @ \cup {span}]
    /\ UNCHANGED <<AgentContext, HandleToolContext, LastToolContext, oneRunVars, kvMap, tracer, chat>>

\* the completion call of run r fails, RunAgent returns
CompletionErrorIn(r) ==
    /\ runs[r].pc = "request"
    /\ spans' = RunDeferred(SetSpanErrorCode(spans, runs[r].routerSpan), runs[r].deferred)
    /\ runs' = [runs EXCEPT ![r].pc = IF runs[r].viaMain THEN "returned" ELSE "exit",
                            ![r].result = "", ![r].err = "transport error"]
    /\ UNCHANGED <<slots, oneRunVars, kvMap, tracer, chat>>

\* the completion call of run r answers with plain text, RunAgent returns
CompletionAnswerIn(r) ==
    /\ runs[r].pc = "request"
    /\ \E content \in Answers :
         /\ spans' = RunDeferred(SetSpanOutput(SetSpanSuccessCode(spans, runs[r].routerSpan),
                                               runs[r].routerSpan, StringAttr(content)),
                                 runs[r].deferred)
         /\ runs' = [runs EXCEPT ![r].pc = IF runs[r].viaMain THEN "returned" ELSE "exit",
                                 ![r].result = content, ![r].last = content]
    /\ UNCHANGED <<slots, oneRunVars, kvMap, tracer, chat>>

\* the completion call of run r answers with one LookUpSalesData call
CompletionToolCallsIn(r) ==
    /\ runs[r].pc = "request"
    /\ LET calls == <<ToolCall(runs[r].requests, LookUpFuncName, ArgsPrompt)>>
           s1 == SetSpanSuccessCode(spans, runs[r].routerSpan)
       IN  /\ spans' = SetSpanOutput(s1, runs[r].routerSpan,
                                     StringSliceAttr(<<RawJSON(calls[1])>>))
           /\ runs' = [runs EXCEPT ![r].pc = "handle", ![r].toolCalls = calls, ![r].last = ""]
    /\ UNCHANGED <<slots, oneRunVars, kvMap, tracer, chat>>

\* handleToolCalls of run r, up to the execution of the tool
HandleToolCallsStartIn(r) ==
    /\ runs[r].pc = "handle"
    /\ LET s1 == StartOpenInferenceSpan(spans, "HandleToolCalls", ChainKind, LastRouterContext)
           span == Len(s1)
       IN  /\ HandleToolContext' = span
           /\ spans' = s1
           /\ runs' = [runs EXCEPT ![r].pc = "dispatch", ![r].handleSpan = span,
                                   ![r].own = @ \cup {span}]
    /\ UNCHANGED <<AgentContext, LastRouterContext, LastToolContext, oneRunVars, kvMap, tracer, chat>>

\* the tool of run r runs and handleToolCalls returns
ProcessToolCallIn(r) ==
    /\ runs[r].pc = "dispatch"
    /\ \E outcome \in {"ok"} :
         LET toolCall == runs[r].toolCalls[1]
             ran == callTool(spans, toolCall.name, Unmarshal(toolCall.arguments).args, outcome)
             h == runs[r].handleSpan
             s1 == SetSpanInput(ran.spans, h, StringSliceAttr(<<RawJSON(toolCall)>>))
             s2 == SetSpanOutput(s1, h, StringSliceAttr(<<ran.result>>))
             s3 == SetSpanSuccessCode(SetSpanModel(s2, h, Model), h)
         IN  /\ spans' = EndOpenInferenceSpan(s3, h)
             /\ runs' = [runs EXCEPT ![r].pc = "loop", ![r].last = ran.result,
                                     ![r].own = @ \cup ((Len(spans) + 1)..Len(ran.spans))]
    /\ UNCHANGED <<slots, oneRunVars, kvMap, tracer, chat>>

\* startMainSpan of run r after RunAgent returned
StartMainSpanReturnIn(r) ==
    /\ runs[r].pc = "returned"
    /\ LET m == runs[r].mainSpan
           s1 == SetSpanOutput(spans, m, StringAttr(runs[r].result))
           s2 == IF runs[r].err # "nil" THEN SetSpanErrorCode(s1, m)
                 ELSE SetSpanSuccessCode(s1, m)
       IN  spans' = EndOpenInferenceSpan(s2, m)
    /\ runs' = [runs EXCEPT ![r].pc = "exit"]
    /\ UNCHANGED <<slots, oneRunVars, kvMap, tracer, chat>>

NextConcurrent ==
    \/ \E r \in Runs : StartMainSpanIn(r)
    \/ \E r \in Runs : RouterCallStartIn(r)
    \/ \E r \in Runs : CompletionErrorIn(r)
    \/ \E r \in Runs : CompletionAnswerIn(r)
    \/ \E r \in Runs : CompletionToolCallsIn(r)
    \/ \E r \in Runs : HandleToolCallsStartIn(r)
    \/ \E r \in Runs : ProcessToolCallIn(r)
    \/ \E r \in Runs : StartMainSpanReturnIn(r)

SpecConcurrent == InitConcurrent /\ [][NextConcurrent]_vars

(***************************************************************************)
(* SetSpanAttrFromMap.  A value of Go's `any` is its dynamic type and the  *)
(* value of that type: s for a string, l for a []string, b for a bool, n   *)
(* for a number.                                                           *)
(***************************************************************************)
GoAny(go, s, l, b, n) == [go |-> go, s |-> s, l |-> l, b |-> b, n |-> n]
GoString(s) == GoAny("string", s, <<>>, FALSE, 0)
GoStringSlice(l) == GoAny("[]string", "", l, FALSE, 0)
GoBool(b) == GoAny("bool", "", <<>>, b, 0)
GoInt(n) == GoAny("int", "", <<>>, FALSE, n)
GoInt64(n) == GoAny("int64", "", <<>>, FALSE, n)
GoFloat64(n) == GoAny("float64", "", <<>>, FALSE, n)
GoNil == GoAny("nil", "", <<>>, FALSE, 0)

BoolAttr(b) == [t |-> "bool", v |-> b]
IntAttr(n) == [t |-> "int", v |-> n]

\* the type switch of SetSpanAttr: the attribute made of the input
AttributeOf(r) ==
    CASE r.go = "string" -> StringAttr(r.s)
      [] r.go = "[]string" -> StringSliceAttr(r.l)
      [] r.go = "bool" -> BoolAttr(r.b)
      [] r.go = "int" -> IntAttr(r.n)
      [] OTHER -> NoAttr

RECURSIVE SetSpanAttrFromMapCoerced(_, _, _)
\* an entry of another type is set as a string
SetSpanAttrFromMapCoerced(sp, id, m) ==
    IF DOMAIN m = {}
    THEN sp
    ELSE LET k == CHOOSE key \in DOMAIN m : TRUE
             rest == [key \in DOMAIN m \ {k} |-> m[key]]
             set == IF m[k].go \in {"string", "int", "[]string", "bool"}
                    THEN SetSpanAttr(sp, id, k, AttributeOf(m[k]))
                    ELSE SetSpanAttr(sp, id, k, StringAttr(m[k].s))
         IN  SetSpanAttrFromMapCoerced(set, id, rest)

RECURSIVE SetSpanAttrFromMap(_, _, _)
\* the range loop over the map, one key at a time; the default case logs
\* and goes on to the next key
SetSpanAttrFromMap(sp, id, m) ==
    IF DOMAIN m = {}
    THEN sp
    ELSE LET k == CHOOSE key \in DOMAIN m : TRUE
             rest == [key \in DOMAIN m \ {k} |-> m[key]]
             set == IF m[k].go \in {"string", "int", "[]string", "bool"}
                    THEN SetSpanAttr(sp, id, k, AttributeOf(m[k]))
                    ELSE sp
         IN  SetSpanAttrFromMap(set, id, rest)

\* the keys and the values of the maps given to SetSpanAttrFromMap
MapKeys == {openInferenceInputKey, openInferenceOutputKey, modelNameKey}
MapValues ==
    {GoString("a"), GoStringSlice(<<"a", "b">>), GoBool(TRUE), GoInt(7),
     GoInt64(7), GoFloat64(7), GoNil}
KvMaps == UNION {[keys -> MapValues] : keys \in SUBSET MapKeys}

InitAttr ==
    /\ InitWith({StringInput("q")})
    /\ runs = [r \in Runs |-> [pc |-> "none"]]
    /\ catalog = ToolsJson
    /\ openaiToolParams = <<>>
    /\ kvMap \in KvMaps
    /\ tracer = [pc |-> "none"]
    /\ chat = [pc |-> "none"]

\* a caller starts a span and names its model
AttrSpanStart ==
    /\ pc = "start"
    /\ spans' = SetSpanModel(StartOpenInferenceSpan(spans, "Attributes", UnknownKind, 0),
                             Len(spans) + 1, Model)
    /\ pc' = "attrSpan"
    /\ UNCHANGED <<runs, kvMap, tracer, chat, catalog, openaiToolParams, input, viaMain, slots,
                   openaiMessages, mainSpan, handleVars, routerSpan, deferred, requests,
                   issued, result, err, executed, shutdown>>

\* the caller gives the span and a map to SetSpanAttrFromMap
SetSpanAttrFromMapCall ==
    /\ pc = "attrSpan"
    /\ spans' = SetSpanAttrFromMap(spans, Len(spans), kvMap)
    /\ pc' = "attrsSet"
    /\ UNCHANGED <<runs, kvMap, tracer, chat, catalog, openaiToolParams, input, viaMain, slots,
                   openaiMessages, mainSpan, handleVars, routerSpan, deferred, requests,
                   issued, result, err, executed, shutdown>>

NextAttr ==
    \/ AttrSpanStart
    \/ SetSpanAttrFromMapCall

SpecAttr == InitAttr /\ [][NextAttr]_vars

(***************************************************************************)
(* openaiChat: the chat program.  chat is its process: the two globals     *)
(* historyMessages and conversationMessages, the local question, the       *)
(* history file, and, for the claims, the file as it was at start and the  *)
(* messages exchanged with the model since.                                *)
(***************************************************************************)
ChatMessage(role, content) == [Role |-> role, Content |-> content]

\* history.json: it may be missing, and its text may not be JSON
HistoryFile(exists, decodes, fileMessages) ==
    [exists |-> exists, decodes |-> decodes, Messages |-> fileMessages]

chatSystemContent == "You are a useful assistant"

RECURSIVE addConversationMessages(_, _)
\* loadHistoryJson's loop of addConversationMessage: a message of another
\* role is reported and left out
addConversationMessages(conversation, newMessages) ==
    IF newMessages = <<>>
    THEN conversation
    ELSE LET newMessage == Head(newMessages)
             added == CASE newMessage.Role = "system" ->
                              Append(conversation, SystemMessage(newMessage.Content))
                        [] newMessage.Role = "assistant" ->
                              Append(conversation, AssistantMessage(newMessage.Content))
                        [] newMessage.Role = "user" ->
                              Append(conversation, UserMessage(newMessage.Content))
                        [] OTHER -> conversation
         IN  addConversationMessages(added, Tail(newMessages))

\* the two globals after updateHistoryAndConversation(newMessage)
updateHistoryAndConversation(c, newMessage) ==
    [c EXCEPT !.historyMessages = Append(@, newMessage),
              !.conversationMessages = addConversationMessages(@, <<newMessage>>)]

\* the two globals after initConversation()
initConversation(c) ==
    [c EXCEPT !.historyMessages = <<ChatMessage("system", chatSystemContent)>>,
              !.conversationMessages = <<SystemMessage(chatSystemContent)>>]

\* the two globals after loadHistoryJson(), and whether it returned an error
loadHistoryJson(c) ==
    IF ~c.file.exists
    THEN [err |-> TRUE, chat |-> c]
    ELSE LET history == IF c.file.decodes THEN c.file.Messages ELSE <<>>
         IN  [err |-> FALSE,
              chat |-> [c EXCEPT !.historyMessages = history,
                                 !.conversationMessages = addConversationMessages(@, history)]]

loadConversation(c, restart) ==
    IF restart
    THEN initConversation(c)
    ELSE LET loaded == loadHistoryJson(c)
         IN  IF loaded.err \/ Len(loaded.chat.historyMessages) = 0
             THEN initConversation(loaded.chat)
             ELSE loaded.chat

\* strings.Trim(question, "\n ") of the lines a user types here
Trim(line) ==
    CASE line = "<exit>\n" -> "<exit>"
      [] line = "  <exit> \n" -> "<exit>"
      [] line = "and then?\n" -> "and then?"
      [] OTHER -> line

\* the history.json of an earlier session
EarlierSession ==
    <<ChatMessage("system", chatSystemContent), ChatMessage("user", "hi"),
      ChatMessage("assistant", "hello")>>

\* a history.json written by hand or by another program: roles that
\* addConversationMessage does not know
OtherRoles ==
    <<ChatMessage("system", chatSystemContent), ChatMessage("tool", "r"),
      ChatMessage("user", "hi")>>

HistoryFiles ==
    {HistoryFile(FALSE, FALSE, <<>>), HistoryFile(TRUE, FALSE, <<>>),
     HistoryFile(TRUE, TRUE, <<>>), HistoryFile(TRUE, TRUE, EarlierSession),
     HistoryFile(TRUE, TRUE, OtherRoles),
     HistoryFile(TRUE, TRUE, <<ChatMessage("developer", "be brief")>>)}

Lines == {"and then?\n", "<exit>\n", "  <exit> \n"}

\* no chat goes on for more than MaxChatTurns completion calls
MaxChatTurns == 3

InitChat ==
    /\ InitWith({StringInput("q")})
    /\ runs = [r \in Runs |-> [pc |-> "none"]]
    /\ catalog = ToolsJson
    /\ openaiToolParams = <<>>
    /\ kvMap = <<>>
    /\ tracer = [pc |-> "none"]
    /\ \E file \in HistoryFiles, restart \in BOOLEAN :
          chat = [pc |-> "start", restartConversation |-> restart, question |-> "q",
                  historyMessages |-> <<>>, conversationMessages |-> <<>>,
                  file |-> file, atStart |-> file, exchanged |-> <<>>, turns |-> 0]

\* main up to the call of openaiChat
ChatLoadConversation ==
    /\ chat.pc = "start"
    /\ chat' = [loadConversation(chat, chat.restartConversation) EXCEPT !.pc = "ask"]
    /\ UNCHANGED <<slots, oneRunVars, spans, runs, kvMap, tracer>>

\* openaiChat: the user message is added and the completion call answers;
\* the answer is added and the next line is awaited
ChatCompletion ==
    /\ chat.pc = "ask"
    /\ \E response \in {"a1", "a2"} :
         LET userMessage == ChatMessage("user", chat.question)
             assistantMessage == ChatMessage("assistant", response)
             asked == updateHistoryAndConversation(chat, userMessage)
             answered == updateHistoryAndConversation(asked, assistantMessage)
         IN  chat' = [answered EXCEPT !.pc = "read", !.turns = @ + 1,
                                      !.exchanged = @ \o <<userMessage, assistantMessage>>]
    /\ UNCHANGED <<slots, oneRunVars, spans, runs, kvMap, tracer>>

\* openaiChat: the user message is added and the completion call fails:
\* openaiChatCompletion panics, nothing recovers, the process dies
ChatCompletionFails ==
    /\ chat.pc = "ask"
    /\ LET userMessage == ChatMessage("user", chat.question)
           asked == updateHistoryAndConversation(chat, userMessage)
       IN  chat' = [asked EXCEPT !.pc = "crashed", !.turns = @ + 1,
                                 !.exchanged = Append(@, userMessage)]
    /\ UNCHANGED <<slots, oneRunVars, spans, runs, kvMap, tracer>>

\* openaiChat: a line is read; <exit> leaves the loop
ChatReadString ==
    /\ chat.pc = "read"
    /\ \E line \in Lines :
         LET question == Trim(line)
         IN  /\ question # "<exit>" => chat.turns < MaxChatTurns
             /\ chat' = [chat EXCEPT !.question = question,
                                     !.pc = IF question = "<exit>" THEN "save" ELSE "ask"]
    /\ UNCHANGED <<slots, oneRunVars, spans, runs, kvMap, tracer>>

\* openaiChat: reading the line fails, the loop is left
ChatReadStringFails ==
    /\ chat.pc = "read"
    /\ chat' = [chat EXCEPT !.pc = "save"]
    /\ UNCHANGED <<slots, oneRunVars, spans, runs, kvMap, tracer>>

\* main: saveHistoryToJson() writes historyMessages to the file
ChatSaveHistoryToJson ==
    /\ chat.pc = "save"
    /\ chat' = [chat EXCEPT !.file = HistoryFile(TRUE, TRUE, chat.historyMessages),
                            !.pc = "done"]
    /\ UNCHANGED <<slots, oneRunVars, spans, runs, kvMap, tracer>>

NextChat ==
    \/ ChatLoadConversation
    \/ ChatCompletion
    \/ ChatCompletionFails
    \/ ChatReadString
    \/ ChatReadStringFails
    \/ ChatSaveHistoryToJson

SpecChat == InitChat /\ [][NextChat]_vars

(***************************************************************************)
(* GetTracerProvider.  tracer is a process that asks for the provider: its *)
(* environment, the two package variables tracerProvider and activeTracer, *)
(* and the exporter.  A string of the environment is the sequence of its   *)
(* pieces, the empty string the empty sequence; PHOENIX_CLIENT_HEADERS is  *)
(* the sequence of its comma-separated items, each the sequence of its     *)
(* parts between "=" signs.                                                *)
(***************************************************************************)
EmptyString == <<>>

\* os.Getenv("PHOENIX_COLLECTOR_ENDPOINT") + "/v1/traces"
collectorEndpointOf(endpoint) == endpoint \o <<"/v1/traces">>

\* the condition of the log.Fatalln
notDefined(collectorEndpoint, headers) ==
    collectorEndpoint = EmptyString \/ headers = EmptyString

RECURSIVE headerMapOf(_, _)
\* the loop over strings.SplitSeq(headers, ","): an item of two parts is
\* an entry of the map, any other item is left out
headerMapOf(headerMap, headers) ==
    IF headers = <<>>
    THEN headerMap
    ELSE LET parts == Head(headers)
             added == IF Len(parts) = 2
                      THEN [k \in DOMAIN headerMap \cup {parts[1]} |->
                              IF k = parts[1] THEN parts[2] ELSE headerMap[k]]
                      ELSE headerMap
         IN  headerMapOf(added, Tail(headers))

NoExporter == [created |-> FALSE, endpoint |-> EmptyString, headers |-> <<>>]
NilProvider == [nil |-> TRUE, exporter |-> NoExporter, shutdown |-> FALSE]

\* the values of the two environment variables; an undefined variable
\* reads as the empty string
Endpoints == {EmptyString, <<"http://localhost:6006">>, <<"https://app.phoenix.arize.com">>}
HeaderItems == {<<"api_key", "k">>, <<"authorization", "Bearer t">>, <<"malformed">>}
Headers == SeqsUpTo(HeaderItems, 2)

InitTracer ==
    /\ InitWith({StringInput("q")})
    /\ runs = [r \in Runs |-> [pc |-> "none"]]
    /\ catalog = ToolsJson
    /\ openaiToolParams = <<>>
    /\ kvMap = <<>>
    /\ chat = [pc |-> "none"]
    /\ \E endpoint \in Endpoints, headers \in Headers :
          tracer = [pc |-> "start", endpoint |-> endpoint, headers |-> headers,
                    exporter |-> NoExporter, tracerProvider |-> NilProvider,
                    activeTracer |-> FALSE]

\* GetTracerProvider with no provider yet, up to the creation of the
\* exporter: log.Fatalln exits the process
GetTracerProviderEnv ==
    /\ tracer.pc = "start"
    /\ tracer.tracerProvider.nil
    /\ LET collectorEndpoint == collectorEndpointOf(tracer.endpoint)
           headers == tracer.headers
       IN  IF notDefined(collectorEndpoint, headers)
           THEN tracer' = [tracer EXCEPT !.pc = "fatal"]
           ELSE tracer' = [tracer EXCEPT !.pc = "exporter"]
    /\ UNCHANGED <<slots, oneRunVars, spans, runs, kvMap, chat>>

\* otlptracehttp.New: the exporter, or an error and log.Panicf
GetTracerProviderExporter ==
    /\ tracer.pc = "exporter"
    /\ \E failed \in BOOLEAN :
         IF failed
         THEN tracer' = [tracer EXCEPT !.pc = "panic"]
         ELSE tracer' = [tracer EXCEPT
                            !.exporter = [created |-> TRUE,
                                          endpoint |-> collectorEndpointOf(tracer.endpoint),
                                          headers |-> headerMapOf(<<>>, tracer.headers)],
                            !.pc = "provider"]
    /\ UNCHANGED <<slots, oneRunVars, spans, runs, kvMap, chat>>

\* traceSdk.NewTracerProvider and otel.SetTracerProvider, the return
GetTracerProviderNew ==
    /\ tracer.pc = "provider"
    /\ tracer' = [tracer EXCEPT
                     !.tracerProvider = [nil |-> FALSE, exporter |-> tracer.exporter,
                                         shutdown |-> FALSE],
                     !.pc = "ready"]
    /\ UNCHANGED <<slots, oneRunVars, spans, runs, kvMap, chat>>

\* GetActiveTracer: GetTracerProvider returns the provider it has, and the
\* tracer is made on the first call
GetActiveTracer ==
    /\ tracer.pc = "ready"
    /\ ~tracer.tracerProvider.nil
    /\ ~tracer.activeTracer
    /\ tracer' = [tracer EXCEPT !.activeTracer = TRUE]
    /\ UNCHANGED <<slots, oneRunVars, spans, runs, kvMap, chat>>

\* main: GetTracerProvider().Shutdown(ctx)
TracerProviderShutdown ==
    /\ tracer.pc = "ready"
    /\ ~tracer.tracerProvider.nil
    /\ tracer' = [tracer EXCEPT !.tracerProvider.shutdown = TRUE, !.pc = "exit"]
    /\ UNCHANGED <<slots, oneRunVars, spans, runs, kvMap, chat>>

NextTracer ==
    \/ GetTracerProviderEnv
    \/ GetTracerProviderExporter
    \/ GetTracerProviderNew
    \/ GetActiveTracer
    \/ TracerProviderShutdown

SpecTracer == InitTracer /\ [][NextTracer]_vars

(***************************************************************************)
(* What the claims speak of.                                               *)
(***************************************************************************)
\* the argument text is JSON
ValidJSON(arguments) == arguments.syntax

\* the argument text cannot be deserialized into toolFunctionArgs: it is
\* not JSON, or it gives a key of the struct a value that is no string
FailsDeserialization(arguments) ==
    \/ ~arguments.syntax
    \/ \E v \in {arguments.data, arguments.prompt, arguments.visualizationGoal} :
         v # Absent /\ v[1] # "string"

KnownNames(calls) == \A i \in 1..Len(calls) : calls[i].name \in KnownTools

Panicked == pc \in {"panic", "crashed"}
\* RunAgent has returned to its caller
RunAgentReturned == pc \in {"returned", "shutdown", "exit", "exitError"}
\* the process is over
ProcessOver == pc \in {"exit", "exitError", "crashed", "configCrashed"}

\* handleToolCalls has just returned to RunAgent
HandleToolCallsReturned == pc = "loop" /\ requests # <<>>

\* the message list handleToolCalls was called with: the last request and its response
HandleInput == Append(requests[Len(requests)], ResponseMessage("", toolCalls))

\* the i-th tool call of the list being handled was executed, and with what result
ExecutionOf(i) == executed[Len(executed) - Len(toolCalls) + i]

\* handleToolCalls returned its input extended by one tool message per call
ReturnedExtended ==
    LET n == Len(toolCalls)
        in == HandleInput
    IN  /\ Len(openaiMessages) = Len(in) + n
        /\ SubSeq(openaiMessages, 1, Len(in)) = in
        /\ Len(executed) >= n
        /\ \A i \in 1..n :
             /\ ExecutionOf(i).id = toolCalls[i].id
             /\ Role(openaiMessages[Len(in) + i]) = "tool"
             /\ openaiMessages[Len(in) + i].tool_call_id = toolCalls[i].id
             /\ openaiMessages[Len(in) + i].content = ExecutionOf(i).result

\* C1 as stated: for every tool-call list whose names are known tools and
\* whose argument strings are valid JSON, handleToolCalls returns (it does
\* not panic) its input extended by N tool messages, in call order.
C1_AsStated ==
    /\ (Panicked /\ KnownNames(toolCalls))
         => \E i \in 1..Len(toolCalls) : ~ValidJSON(toolCalls[i].arguments)
    /\ HandleToolCallsReturned => ReturnedExtended

\* C1 (amended): for every tool-call list whose names are known tools and
\* whose argument strings deserialize into toolFunctionArgs, handleToolCalls
\* returns its input message sequence extended by exactly N tool messages,
\* the i-th with the id of the i-th call and the text its execution
\* returned; the messages already there are unchanged.
C1_Dispatch ==
    /\ (Panicked /\ KnownNames(toolCalls))
         => \E i \in 1..Len(toolCalls) : FailsDeserialization(toolCalls[i].arguments)
    /\ HandleToolCallsReturned => ReturnedExtended

C1_Witness ==
    /\ HandleToolCallsReturned
    /\ Len(toolCalls) = 2
    /\ executed[1].outcome # "ok"

\* the tool call the range loop of handleToolCalls is at
AtCall == pc = "dispatch" /\ idx <= Len(toolCalls)

\* the step is fatal: nothing is appended, nothing is executed, no span is
\* started, no request is issued
FatalStep ==
    /\ pc' = "panic"
    /\ messages' = messages
    /\ openaiMessages' = openaiMessages
    /\ executed' = executed
    /\ requests' = requests
    /\ Len(spans') = Len(spans)

\* after a panic nothing but the unwinding happens
DeadStep ==
    /\ pc' \in {"panic", "crashed"}
    /\ messages' = messages
    /\ openaiMessages' = openaiMessages
    /\ executed' = executed
    /\ requests' = requests
    /\ Len(spans') = Len(spans)
    /\ idx' = idx

\* C2: a tool call whose name is none of the three tools is fatal: no tool
\* message is appended for it, no later call of the list is executed and
\* the run issues no further completion request.
C2_UnknownToolFatal ==
    [][/\ (AtCall /\ toolCalls[idx].name \notin KnownTools) => FatalStep
       /\ Panicked => DeadStep]_vars

C2_Witness ==
    /\ pc = "crashed"
    /\ idx = 1
    /\ Len(toolCalls) = 2
    /\ toolCalls[1].name \notin KnownTools
    /\ ValidJSON(toolCalls[1].arguments)
    /\ executed = <<>>

\* C3: when the argument string of a tool call fails deserialization, its
\* tool is not executed, no tool message is appended for it, the remaining
\* calls are not executed and no further completion request is issued.
C3_BadArgumentsFatal ==
    [][/\ (AtCall /\ FailsDeserialization(toolCalls[idx].arguments)) => FatalStep
       /\ (Panicked /\ FailsDeserialization(toolCalls[idx].arguments)) => DeadStep]_vars

C3_Witness ==
    /\ pc = "crashed"
    /\ idx = 1
    /\ Len(toolCalls) = 2
    /\ toolCalls[1].name \in KnownTools
    /\ ~ValidJSON(toolCalls[1].arguments)
    /\ Len(spans) = Cardinality({i \in 1..Len(spans) : spans[i].name \in {"AgentRun", "RouterCall", "HandleToolCalls"}})

\* C4: if the completion call fails, RunAgent issues no further request and
\* returns the error with an empty answer, the RouterCall span of that
\* iteration has status Error, and the AgentRun span is ended with status
\* Error once startMainSpan has returned.
C4_CompletionFailure ==
    /\ [](err # "nil" =>
            /\ RunAgentReturned
            /\ result = ""
            /\ spans[routerSpan].name = "RouterCall"
            /\ spans[routerSpan].status = "Error"
            /\ routerSpan = Len(spans)
            /\ Len(requests[Len(requests)]) = Len(openaiMessages)
            /\ (viaMain /\ pc # "returned") =>
                  /\ spans[mainSpan].name = "AgentRun"
                  /\ spans[mainSpan].status = "Error"
                  /\ spans[mainSpan].ended = 1)
    /\ [][err # "nil" => (requests' = requests /\ err' = err /\ result' = result)]_vars

C4_Witness ==
    /\ pc = "exitError"
    /\ viaMain
    /\ Len(requests) = 2
    /\ err # "nil"

\* C5: every span opened during a run is ended exactly once by the time the
\* run returns or aborts: none is ended twice, and when RunAgent has
\* returned only the AgentRun span may still be open, and when startMainSpan
\* has returned or the panic has unwound none is.
C5_SpansEndedOnce ==
    /\ \A i \in 1..Len(spans) : spans[i].ended <= 1
    /\ pc = "returned" => \A i \in 1..Len(spans) : i # mainSpan => spans[i].ended = 1
    /\ (pc = "shutdown" \/ ProcessOver) => \A i \in 1..Len(spans) : spans[i].ended = 1
    /\ pc \in {"loop", "request", "dispatch"} =>
          \A i \in 1..Len(spans) :
             spans[i].name \notin {"AgentRun", "RouterCall", "HandleToolCalls"} => spans[i].ended = 1

C5_Witness ==
    /\ pc = "crashed"
    /\ viaMain
    /\ Len(requests) = 2
    /\ \E i \in 1..Len(executed) : executed[i].outcome # "ok"

ToolSpanNames == {"LookUpTool", "AnalyzeTool", "VisualizationTool"}

\* C6: every tool span's parent is the HandleToolCalls span of the dispatch
\* that executed it; no tool span is a root span.
C6_ToolSpanParent ==
    \A i \in 1..Len(spans) :
       spans[i].name \in ToolSpanNames =>
          /\ spans[i].parent # 0
          /\ spans[spans[i].parent].name = "HandleToolCalls"

SpansOfKind(kind) == {i \in 1..Len(spans) : KindOf(spans[i]) = StringAttr(kind)}
SpansNamed(name) == {i \in 1..Len(spans) : spans[i].name = name}

\* the run of the scenario: the first response asked for one LookUpSalesData
\* call, the second was plain text, and RunAgent has returned
LookUpThenAnswer ==
    /\ RunAgentReturned
    /\ err = "nil"
    /\ Len(executed) = 1
    /\ executed[1].name = LookUpFuncName
    /\ Len(toolCalls) = 0
    /\ Len(openaiMessages) = Len(requests[1]) + 3

LoopState ==
    CASE pc \in {"start", "runAgent", "loop", "request"} -> "AwaitingRouterDecision"
      [] pc \in {"handle", "dispatch"} -> "ToolCallsPending"
      [] RunAgentReturned /\ err = "nil" -> "Done"
      [] OTHER -> "Aborted"

LastMessage(msgs) == msgs[Len(msgs)]

\* every tool call of the last response was executed, in order, and its
\* result is in the conversation, in order, after the response
PendingAllHandled(msgs) ==
    LET n == Len(toolCalls)
    IN  /\ n > 0
        /\ Len(msgs) > n
        /\ msgs[Len(msgs) - n].tool_calls = toolCalls
        /\ Len(executed) >= n
        /\ \A i \in 1..n :
             /\ ExecutionOf(i).id = toolCalls[i].id
             /\ Role(msgs[Len(msgs) - n + i]) = "tool"
             /\ msgs[Len(msgs) - n + i].tool_call_id = toolCalls[i].id
             /\ msgs[Len(msgs) - n + i].content = ExecutionOf(i).result

LoopStep ==
    /\ LoopState' # LoopState =>
         \/ /\ LoopState = "AwaitingRouterDecision"
            /\ LoopState' = "ToolCallsPending"
            /\ Len(LastMessage(openaiMessages').tool_calls) >= 1
            /\ toolCalls' = LastMessage(openaiMessages').tool_calls
         \/ /\ LoopState = "AwaitingRouterDecision"
            /\ LoopState' = "Done"
            /\ Len(LastMessage(openaiMessages').tool_calls) = 0
            /\ result' = LastMessage(openaiMessages').content
         \/ /\ LoopState = "ToolCallsPending"
            /\ LoopState' = "AwaitingRouterDecision"
            /\ PendingAllHandled(openaiMessages')
            /\ openaiMessages' = messages
         \/ /\ LoopState \in {"AwaitingRouterDecision", "ToolCallsPending"}
            /\ LoopState' = "Aborted"
            /\ (err' # "nil" \/ pc' \in {"panic", "configPanic"})
    \* a response decides the next state by its tool calls
    /\ (pc = "request" /\ Len(openaiMessages') > Len(openaiMessages)) =>
         LoopState' = IF Len(LastMessage(openaiMessages').tool_calls) >= 1
                      THEN "ToolCallsPending" ELSE "Done"
    \* Done is terminal
    /\ LoopState = "Done" =>
         /\ LoopState' = "Done"
         /\ result' = result
         /\ requests' = requests
         /\ openaiMessages' = openaiMessages
    \* a request is issued in AwaitingRouterDecision only, with nothing pending
    /\ requests' # requests =>
         /\ LoopState = "AwaitingRouterDecision"
         /\ requests' = Append(requests, openaiMessages)
         /\ requests # <<>> => PendingAllHandled(openaiMessages)

\* C8: a run moves between the states of the loop only from
\* AwaitingRouterDecision to ToolCallsPending (the response has a tool
\* call), from AwaitingRouterDecision to Done (it has none, and the answer
\* is its text) and from ToolCallsPending to AwaitingRouterDecision (every
\* pending call executed, every result appended); Done is terminal; no
\* completion request is issued while tool calls are pending.
C8_LoopTransitions == [][LoopStep]_vars

C8_Witness ==
    /\ LoopState = "Done"
    /\ Len(requests) = 3
    /\ Len(executed) = 2
    /\ pc = "exit"

\* C9: for every string s, formatAgentMessages(s) is exactly two messages:
\* the default system message, then one user message with content s.
C9_FormatString ==
    (pc = "loop" /\ input.kind = "string") =>
       /\ Len(openaiMessages) = 2
       /\ Role(openaiMessages[1]) = "system"
       /\ openaiMessages[1].content = systemPrompt
       /\ Role(openaiMessages[2]) = "user"
       /\ openaiMessages[2].content = input.text
       /\ openaiMessages = <<SystemMessage(systemPrompt), UserMessage(input.text)>>

C9_Witness ==
    /\ pc = "loop"
    /\ input.kind = "string"
    /\ input.text = ""
    /\ Len(openaiMessages) = 2

SystemPositions(msgs) == {i \in 1..Len(msgs) : Role(msgs[i]) = "system"}

\* C10: for every message sequence that contains a system message at any
\* position, formatAgentMessages returns the sequence unchanged: same
\* length, same messages in the same order, no second system message.
C10_FormatKeepsSystem ==
    (pc = "loop" /\ input.kind = "list" /\ SystemPositions(input.list) # {}) =>
       /\ Len(openaiMessages) = Len(input.list)
       /\ openaiMessages = input.list
       /\ SystemPositions(openaiMessages) = SystemPositions(input.list)

C10_Witness ==
    /\ pc = "loop"
    /\ input.kind = "list"
    /\ SystemPositions(input.list) = {3}
    /\ openaiMessages = input.list

\* C11: in every completion request RunAgent issues, whatever the input
\* (a string or a message list with its system messages anywhere), the
\* first message of the request is a system message.
C11_FirstMessageSystem ==
    \A k \in 1..Len(requests) :
       /\ requests[k] # <<>>
       /\ Role(requests[k][1]) = "system"

\* C12: for every message sequence without a system message,
\* formatAgentMessages returns the default system message at index 0 and
\* then the input messages in their order; the system message is at no
\* other index.
C12_FormatPrependsSystem ==
    (pc = "loop" /\ input.kind = "list" /\ SystemPositions(input.list) = {}) =>
       /\ Len(openaiMessages) = Len(input.list) + 1
       /\ Role(openaiMessages[1]) = "system"
       /\ openaiMessages[1].content = systemPrompt
       /\ SubSeq(openaiMessages, 2, Len(openaiMessages)) = input.list
       /\ SystemPositions(openaiMessages) = {1}

C12_Witness ==
    /\ pc = "loop"
    /\ input.kind = "list"
    /\ Len(input.list) = 3
    /\ SystemPositions(input.list) = {}
    /\ Role(input.list[1]) = "tool"
    /\ Len(openaiMessages) = 4


\* the execution failed: a database or SQL-generation error in
\* LookUpSalesData, a failed analysis completion call, a failed
\* chart-generation completion call
ToolFailed(e) ==
    CASE e.name = LookUpFuncName -> e.outcome \in {"open", "sqlgen", "select"}
      [] e.name = AnalyzeFuncName -> e.outcome = "error"
      [] e.name = VisualizeFuncName -> e.outcome \in {"chart", "both"}
      [] OTHER -> FALSE

\* the conversation handleToolCalls is building, or has handed back
Conversation == IF pc = "dispatch" \/ Panicked THEN messages ELSE openaiMessages

\* C13: when the execution of a tool fails, the tool returns a non-empty
\* failure text, handleToolCalls appends it as the tool message of that
\* call, and the failure does not abort the run; for each of the three tools.
C13_ToolFailureRecoverable ==
    /\ \A k \in 1..Len(executed) :
          ToolFailed(executed[k]) =>
             /\ executed[k].result # ""
             /\ \E j \in 1..Len(Conversation) :
                   /\ Role(Conversation[j]) = "tool"
                   /\ Conversation[j].tool_call_id = executed[k].id
                   /\ Conversation[j].content = executed[k].result
    /\ Panicked => \A k \in 1..Len(executed) : executed[k].id # toolCalls[idx].id

MaxOf(S) == CHOOSE x \in S : \A y \in S : y <= x

\* the slot of a role holds the context of the last span opened in that role
SlotFollows(slot, opened) == opened # {} => slot = MaxOf(opened)

\* C15: at every point of a run each of the four slots holds the context of
\* the most recently opened span of its role: AgentContext once AgentRun is
\* opened, LastRouterContext after each RouterCall span, HandleToolContext
\* after each HandleToolCalls span, LastToolContext after each tool span.
C15_SlotsFollowSpans ==
    /\ SlotFollows(AgentContext, SpansNamed("AgentRun"))
    /\ SlotFollows(LastRouterContext, SpansNamed("RouterCall"))
    /\ SlotFollows(HandleToolContext, SpansNamed("HandleToolCalls"))
    /\ SlotFollows(LastToolContext, {i \in 1..Len(spans) : spans[i].name \in ToolSpanNames})

\* C14: in any interleaving of two concurrent runs of one process, every
\* slot a run reads holds a context that run wrote: no span started by one
\* run has a span started by the other run as its parent.
C14_NoContextLeak ==
    \A r \in Runs : \A i \in runs[r].own :
       spans[i].parent # 0 => spans[i].parent \in runs[r].own

\* RunAgent is inside its loop
InLoop == pc \in {"loop", "request", "handle", "dispatch"}

\* the step takes RunAgent out of its loop, and why
LeavesLoop ==
    (InLoop /\ ~InLoop') =>
       \/ /\ pc = "request"
          /\ err' = "nil"
          /\ Len(LastMessage(openaiMessages').tool_calls) = 0
          /\ RunAgentReturned'
       \/ /\ pc = "request"
          /\ err' # "nil"
          /\ RunAgentReturned'
       \/ /\ pc = "dispatch"
          /\ pc' = "panic"
          /\ \/ FailsDeserialization(toolCalls[idx].arguments)
             \/ toolCalls[idx].name \notin KnownTools

\* the responses received so far
Responses == {k \in 1..Len(openaiMessages) : openaiMessages[k].type = ResponseMsg}

\* C16: the router loop has no iteration bound: at the top of the loop the
\* next completion request is always issued, however many were issued
\* before (below the bound of the model); a run whose every response carries
\* a tool call does not reach Done; and RunAgent leaves the loop only on a
\* response without tool calls, a failed completion call or a fatal
\* tool-call error.
C16_NoIterationBound ==
    /\ []((pc = "loop" /\ Len(requests) < MaxRequests) => ENABLED RouterCallStart)
    /\ [](LoopState = "Done" =>
             \E k \in Responses : openaiMessages[k].tool_calls = <<>>)
    /\ [][LeavesLoop]_vars

C16_Witness ==
    /\ pc = "request"
    /\ Len(requests) = MaxRequests
    /\ Cardinality(Responses) = MaxRequests - 1
    /\ \A k \in Responses : openaiMessages[k].tool_calls # <<>>

\* the RouterCall span opened last before span i
RouterSpanBefore(i) == MaxOf({j \in SpansNamed("RouterCall") : j < i})

\* C17: in every iteration of a run started through startMainSpan, the
\* second and later ones included, the RouterCall span is a direct child of
\* the AgentRun span of the run: not of a RouterCall or HandleToolCalls
\* span, and not a root.
C17_RouterUnderAgentRun ==
    viaMain =>
       \A i \in SpansNamed("RouterCall") :
          /\ spans[i].parent # 0
          /\ spans[i].parent = mainSpan
          /\ spans[spans[i].parent].name = "AgentRun"

C17_Witness ==
    /\ viaMain
    /\ Cardinality(SpansNamed("RouterCall")) = 3
    /\ Cardinality(SpansNamed("HandleToolCalls")) = 2
    /\ spans[Len(spans)].name = "RouterCall"
    /\ spans[Len(spans)].parent = 1

\* C18: the RouterCall span of an iteration is ended before the RouterCall
\* span of the next iteration is opened: at most one RouterCall span is open
\* at any time.
C18_OneRouterSpanOpen ==
    /\ Cardinality({i \in SpansNamed("RouterCall") : spans[i].ended = 0}) <= 1
    /\ \A i, j \in SpansNamed("RouterCall") :
          i < j => (spans[i].ended > 0 /\ spans[i].endT < spans[j].startT)

\* C19: every HandleToolCalls span is a direct child of the RouterCall span
\* of its iteration: the span of the completion call whose response carried
\* the tool calls being handled.
C19_HandleUnderRouter ==
    /\ \A i \in SpansNamed("HandleToolCalls") :
          /\ spans[i].parent # 0
          /\ spans[spans[i].parent].name = "RouterCall"
          /\ spans[i].parent = RouterSpanBefore(i)
          /\ spans[spans[i].parent].attrs[openInferenceOutputKey].t = "strings"
    /\ pc = "dispatch" =>
          /\ spans[handleSpan].name = "HandleToolCalls"
          /\ spans[handleSpan].parent = routerSpan
          /\ spans[routerSpan].attrs[openInferenceOutputKey] = StringSliceAttr(toolCalls)

C19_Witness ==
    /\ pc = "dispatch"
    /\ Cardinality(SpansNamed("HandleToolCalls")) = 2
    /\ Cardinality(SpansNamed("RouterCall")) = 2
    /\ viaMain
    /\ spans[handleSpan].parent = routerSpan
    /\ handleSpan = Len(spans)

\* the span of the k-th tool execution of the run
ToolSpans == {i \in 1..Len(spans) : spans[i].name \in ToolSpanNames}
ToolSpanOf(k) == CHOOSE i \in ToolSpans : Cardinality({j \in ToolSpans : j <= i}) = k

\* C20: every tool execution opens one span and ends it on every return
\* path, and the span ends with status Ok if the execution succeeded and
\* Error if the tool or one of its sub-steps failed; never Unset.
C20_ToolSpanStatus ==
    /\ Cardinality(ToolSpans) = Len(executed)
    /\ \A k \in 1..Len(executed) :
          LET s == spans[ToolSpanOf(k)]
          IN  /\ s.ended = 1
              /\ ~s.late
              /\ s.status = IF executed[k].outcome = "ok" THEN "Ok" ELSE "Error"

\* C21: when it ends, every tool span has the tool's input arguments as
\* its input attribute and the text returned to the conversation (the
\* result or the failure description) as its output attribute, on success
\* and on failure paths alike.
C21_ToolSpanInputOutput ==
    \A k \in 1..Len(executed) :
       LET s == spans[ToolSpanOf(k)]
       IN  /\ s.ended = 1
           /\ s.attrs[openInferenceInputKey].t # "none"
           /\ s.attrs[openInferenceOutputKey].t = "string"
           /\ s.attrs[openInferenceOutputKey].v = executed[k].result

\* C22: the message list of each completion request extends the list of
\* the request before it: the earlier messages are the same in the same
\* order, and what is added is the assistant response to the earlier
\* request followed by one tool message per tool call of that response, the
\* i-th for the id of the i-th call, the ids of a response being distinct.
C22_RequestsExtend ==
    \A k \in 2..Len(requests) :
       LET prev == requests[k - 1]
           cur == requests[k]
       IN  /\ Len(cur) > Len(prev) + 1
           /\ SubSeq(cur, 1, Len(prev)) = prev
           /\ LET response == cur[Len(prev) + 1]
                  n == Len(response.tool_calls)
              IN  /\ response.type = ResponseMsg
                  /\ Role(response) = "assistant"
                  /\ n >= 1
                  /\ Len(cur) = Len(prev) + 1 + n
                  /\ \A i \in 1..n :
                        /\ Role(cur[Len(prev) + 1 + i]) = "tool"
                        /\ cur[Len(prev) + 1 + i].tool_call_id = response.tool_calls[i].id
                  /\ \A i, j \in 1..n :
                        response.tool_calls[i].id = response.tool_calls[j].id => i = j

C22_Witness ==
    /\ Len(requests) = 3
    /\ Len(requests[2]) = Len(requests[1]) + 2
    /\ Len(requests[3]) = Len(requests[2]) + 2
    /\ pc = "request"

\* the parameters the named tool is called with
RequiredOf(functionName) ==
    CASE functionName = LookUpFuncName -> {"prompt"}
      [] functionName = AnalyzeFuncName -> {"prompt", "data"}
      [] functionName = VisualizeFuncName -> {"data", "visualizationGoal"}
      [] OTHER -> {}

\* the argument text of the call does not supply a parameter its tool requires
MissingRequired(toolCall) ==
    \E param \in RequiredOf(toolCall.name) : toolCall.arguments[param] = Absent

\* C23: a tool is never executed with an empty default in place of a
\* parameter the request did not supply: a call whose arguments are valid
\* JSON but lack a parameter its tool requires is fatal, and its tool is
\* not run.
C23_MissingParameterFatal ==
    [][(AtCall /\ ValidJSON(toolCalls[idx].arguments) /\ MissingRequired(toolCalls[idx]))
          => FatalStep]_vars

\* the names of the catalog are not exactly the three tools, or the file
\* cannot be read
CatalogMismatch ==
    \/ ~catalog.opens
    \/ ~catalog.decodes
    \/ {catalog.names[i] : i \in 1..Len(catalog.names)} # KnownTools

\* C24: if the tool names of the loaded catalog are not exactly the three
\* tools (an extra name, a missing tool, a file that cannot be decoded), the
\* run fails before the first completion request is issued.
C24_CatalogMismatchAtStartup ==
    CatalogMismatch =>
       /\ requests = <<>>
       /\ pc \in {"start", "runAgent", "configPanic", "configCrashed"}

\* C25: when a run aborts on malformed tool-call arguments or an unknown
\* tool name, the RouterCall span of that iteration and the AgentRun span
\* of the run both end with status Error, not Ok and not Unset.
C25_FatalToolCallMarksSpans ==
    pc = "crashed" =>
       /\ spans[routerSpan].ended = 1
       /\ spans[routerSpan].status = "Error"
       /\ viaMain => (spans[mainSpan].ended = 1 /\ spans[mainSpan].status = "Error")

\* the step leaves every ended span as it was, and every span its kind
SpansKept ==
    \A i \in 1..Len(spans) :
       /\ KindOf(spans'[i]) = KindOf(spans[i])
       /\ spans[i].ended > 0 =>
             (spans'[i].attrs = spans[i].attrs /\ spans'[i].status = spans[i].status)

\* C26: no attribute and no status is set on a span after it has ended, on
\* any path of a run (normal return, completion error, panic), and the
\* span-kind attribute a span was created with is never changed.
C26_NothingSetAfterEnd ==
    /\ [](\A i \in 1..Len(spans) : ~spans[i].late)
    /\ [][SpansKept]_vars

C26_Witness ==
    /\ pc = "crashed"
    /\ viaMain
    /\ Len(requests) = 2
    /\ Len(executed) = 1
    /\ \A i \in 1..Len(spans) : spans[i].ended = 1 /\ ~spans[i].late

Kinds == {"AGENT", "CHAIN", "TOOL", "LLM", "UNKNOWN"}

\* C28: every span of a run has an openinference.span.kind attribute, one
\* of AGENT, CHAIN, TOOL, LLM, UNKNOWN: AGENT for the run span, CHAIN for
\* the RouterCall and HandleToolCalls spans, TOOL for tool spans.
C28_EverySpanHasKind ==
    \A i \in 1..Len(spans) :
       LET kind == KindOf(spans[i])
       IN  /\ kind.t = "string"
           /\ kind.v \in Kinds
           /\ spans[i].name = "AgentRun" => kind.v = "AGENT"
           /\ spans[i].name \in {"RouterCall", "HandleToolCalls"} => kind.v = "CHAIN"
           /\ spans[i].name \in ToolSpanNames => kind.v = "TOOL"

\* run q had ended, all its spans with it, before run r opened its first span
EndedBefore(q, r) ==
    /\ q # r
    /\ runs[q].pc = "exit"
    /\ runs[q].own # {}
    /\ \A j \in runs[q].own : \A i \in runs[r].own :
          spans[j].ended > 0 /\ spans[j].endT < spans[i].startT

\* C27: the slots of a run are discarded when it ends: a run that starts
\* after another run of the process has finished opens no span whose
\* parent is a span of the finished run, whether it was started through
\* startMainSpan or by a direct call of RunAgent.
C27_SlotsDiscardedAtRunEnd ==
    \A q \in Runs : \A r \in Runs :
       EndedBefore(q, r) => \A i \in runs[r].own : spans[i].parent \notin runs[q].own

\* the attribute a of a span is the one made of the map's value v, of the
\* same type and the same value
SameTypeAndValue(a, v) ==
    CASE v.go = "string" -> a.t = "string" /\ a.v = v.s
      [] v.go = "[]string" -> a.t = "strings" /\ a.v = v.l
      [] v.go = "bool" -> a.t = "bool" /\ a.v = v.b
      [] v.go = "int" -> a.t = "int" /\ a.v = v.n
      [] OTHER -> FALSE

SameAttribute(a, b) == a.t = b.t /\ (a.t # "none" => a.v = b.v)

\* C29: SetSpanAttrFromMap sets, for every entry of the map whose value is
\* a string, a []string, a bool or an int, the attribute of that type and
\* value under the entry's key; for an entry of any other type, and for a
\* key that is not in the map, it leaves the span's attribute as it was,
\* whatever the other entries are.
C29_SetSpanAttrFromMap ==
    [][(pc = "attrSpan" /\ pc' = "attrsSet") =>
          /\ Len(spans') = Len(spans)
          /\ \A k \in AttrKeys :
                LET before == spans[Len(spans)].attrs[k]
                    after == spans'[Len(spans)].attrs[k]
                IN  IF k \in DOMAIN kvMap /\ kvMap[k].go \in {"string", "[]string", "bool", "int"}
                    THEN SameTypeAndValue(after, kvMap[k])
                    ELSE SameAttribute(after, before)]_vars

C29_Witness ==
    /\ pc = "attrsSet"
    /\ DOMAIN kvMap = MapKeys
    /\ kvMap[openInferenceInputKey] = GoInt(7)
    /\ kvMap[openInferenceOutputKey] = GoBool(TRUE)
    /\ kvMap[modelNameKey] = GoFloat64(7)
    /\ spans[1].attrs[openInferenceInputKey].t = "int"
    /\ spans[1].attrs[openInferenceOutputKey].t = "bool"
    /\ spans[1].attrs[modelNameKey].t = "string"

\* the history the session starts from: the file's, when it is there, holds
\* a message and no restart was asked; a new conversation otherwise
LoadedHistory ==
    IF ~chat.restartConversation /\ chat.atStart.exists /\ chat.atStart.decodes
       /\ chat.atStart.Messages # <<>>
    THEN chat.atStart.Messages
    ELSE <<ChatMessage("system", chatSystemContent)>>

\* C30: the chat program loads the history at start, and when the chat
\* has ended, by <exit>, by a failure to read the input or by a failure of
\* the completion call, the history file holds the loaded history followed
\* by every user and assistant message exchanged in the session, in order.
C30_HistorySavedHoweverChatEnds ==
    /\ chat.pc \in {"ask", "read", "save"} =>
          chat.historyMessages = LoadedHistory \o chat.exchanged
    /\ chat.pc \in {"done", "crashed"} =>
          /\ chat.file.exists
          /\ chat.file.decodes
          /\ chat.file.Messages = LoadedHistory \o chat.exchanged

\* span i lies within span p: it starts after p starts, and when p has
\* ended, i has ended, and not later than p
Within(i, p) ==
    /\ spans[p].startT < spans[i].startT
    /\ spans[p].ended > 0 =>
          (spans[i].ended > 0 /\ spans[i].endT < spans[p].endT)

\* C31: span lifetimes are nested: every span that has a parent starts
\* after its parent starts and ends before its parent ends, each
\* HandleToolCalls span within its RouterCall span and each RouterCall span
\* within the AgentRun span, however the run ends.
C31_SpansNested ==
    \A i \in 1..Len(spans) : spans[i].parent # 0 => Within(i, spans[i].parent)

\* the last response of the endpoint carries no tool call
AnswerGiven ==
    /\ openaiMessages # <<>>
    /\ LastMessage(openaiMessages).type = ResponseMsg
    /\ LastMessage(openaiMessages).tool_calls = <<>>

RECURSIVE CallsOf(_)
\* the tool calls of the responses of a conversation, in response order
\* and then list order
CallsOf(msgs) ==
    IF msgs = <<>>
    THEN <<>>
    ELSE IF Head(msgs).type = ResponseMsg
         THEN Head(msgs).tool_calls \o CallsOf(Tail(msgs))
         ELSE CallsOf(Tail(msgs))

\* every tool call of the responses was executed once, in that order
ExecutedInOrder ==
    LET calls == CallsOf(openaiMessages)
    IN  /\ Len(executed) = Len(calls)
        /\ \A k \in 1..Len(calls) :
              executed[k].id = calls[k].id /\ executed[k].name = calls[k].name

\* C32: when every completion call and every execution of a tool returns,
\* and the endpoint comes to return a response with no tool calls, the run
\* reaches Done and returns the text of that response, and every tool call
\* of every earlier response has been executed exactly once, in response
\* order and then list order.
C32_AnswerEndsRun ==
    <>AnswerGiven =>
       <>(/\ LoopState = "Done"
          /\ AnswerGiven
          /\ result = LastMessage(openaiMessages).content
          /\ ExecutedInOrder)

C32_Witness ==
    /\ LoopState = "Done"
    /\ AnswerGiven
    /\ Len(requests) = 3
    /\ Len(executed) = 2
    /\ executed[1].name # executed[2].name
    /\ result = "Sales were flat"

\* C33: however the run ends (answer returned, completion error returned,
\* fatal tool-call panic), when the process is over the tracer provider's
\* Shutdown has been called, after the AgentRun span ended.
C33_ShutdownOnEveryEnd ==
    (ProcessOver /\ viaMain) => (shutdown /\ spans[mainSpan].ended = 1)

\* C34: in the chat program, after loadConversation and after any number
\* of calls of updateHistoryAndConversation, historyMessages and
\* conversationMessages are not empty, have the same length, and have the
\* same role at every index, whatever the history file held.
C34_HistoryAndConversationAligned ==
    chat.pc \in {"ask", "read", "save", "done", "crashed"} =>
       /\ chat.historyMessages # <<>>
       /\ chat.conversationMessages # <<>>
       /\ Len(chat.historyMessages) = Len(chat.conversationMessages)
       /\ \A i \in 1..Len(chat.conversationMessages) :
             i <= Len(chat.historyMessages) =>
                Role(chat.conversationMessages[i]) = chat.historyMessages[i].Role

\* C35: GetTracerProvider aborts before it creates an exporter or a
\* provider whenever PHOENIX_COLLECTOR_ENDPOINT is not defined, and
\* whenever PHOENIX_CLIENT_HEADERS is not defined, each on its own.
C35_AbortsWhenNotDefined ==
    (tracer.pc # "none" /\ (tracer.endpoint = EmptyString \/ tracer.headers = EmptyString)) =>
       /\ tracer.pc \in {"start", "fatal"}
       /\ ~tracer.exporter.created
       /\ tracer.tracerProvider.nil

=============================================================================
